---- MODULE Spec2Model ----
(***************************************************************************)
(* Gaussian_poolOrNot.c: Bayesian choice between one Gaussian ("pooled")   *)
(* and a two-component Gaussian mixture ("differ"), by evidence integrals  *)
(* estimated by prior sampling and by a Riemann sum on quantile grids.     *)
(*                                                                         *)
(* Number representation.  A C double is modelled by an integer in fixed   *)
(* point: positions, scales, precisions and probabilities are counted in   *)
(* hundredths (One = 1.0), +infinity is the value Inf.  A density is in    *)
(* hundredths too.  A factor of a likelihood product is a weighted sum of  *)
(* densities with weights in hundredths, so it is counted in units of      *)
(* 1/One^2 and kept unrounded; the product of dataN factors and the sums   *)
(* of such products are exact natural numbers, kept in decimal limbs.  A   *)
(* returned evidence  prob_total / count  is the exact quotient [num, den].*)
(***************************************************************************)
EXTENDS Integers, Sequences, FiniteSets, TLC

(* ------------------------------ bounds --------------------------------- *)
\* The sizes of the program, scaled down so that every loop is enumerated.
DATA_N == 2
CDF_GAUSS_N == 2
CDF_GAMMA_N == 2
CDF_JBETA_N == 2
sampleRepeatNum == 2
\* Trial counts that are run to the end: 1..MaxTrials and the default.
MaxTrials == 2
MaxSeed == 3
MaxArgLen == 2
MaxArgc == 3

(* --------------------------- fixed point ------------------------------- *)
One == 100
Inf == 1000000000

\* The one element of a singleton; with a set constructor it gives an
\* expression a name whose value is computed once.
The(S) == CHOOSE x \in S : TRUE

\* floor(sqrt(n)) for 0 <= n < 1024 * 1024: the leading five bits, then
\* the other five.
ISqrt(n) ==
  The({ The({ CHOOSE r \in (32 * h)..(32 * h + 31) :
                r * r <= m /\ m < (r + 1) * (r + 1)
              : h \in { CHOOSE a \in 0..31 :
                          /\ (32 * a) * (32 * a) <= m
                          /\ m < (32 * (a + 1)) * (32 * (a + 1)) } })
        : m \in {n} })

\* sigma = 1/sqrt(precision); 1/sqrt(0.0) is +infinity in IEEE arithmetic.
sigma_of_precision(precision) ==
  IF precision = 0 THEN Inf ELSE ISqrt((One * One * One) \div precision)

\* exp(-z2/2) in hundredths, z2 = ((x-mu)/sigma)^2 given in quarters;
\* below the last threshold the double underflows to 0.
ExpHalfNeg(q) ==
  IF q = 0 THEN 100 ELSE IF q = 1 THEN 85 ELSE IF q = 2 THEN 75
  ELSE IF q = 3 THEN 65 ELSE IF q < 6 THEN 55 ELSE IF q < 8 THEN 42
  ELSE IF q < 12 THEN 30 ELSE IF q < 16 THEN 17 ELSE IF q < 24 THEN 8
  ELSE IF q < 36 THEN 2 ELSE 0

\* The normal density exp(-(x-mu)^2/(2 sigma^2)) / (sigma sqrt(2 pi)).
GSLfun_ran_gaussian_pdf(x, params) ==
  IF params.sigma = Inf THEN 0
  ELSE LET d == x - params.mu
           q == (4 * d * d) \div (params.sigma * params.sigma)
           peak == (40 * One) \div params.sigma
       IN (peak * ExpHalfNeg(q)) \div One

(* ------------------------- exact naturals ----------------------------- *)
\* A natural number as three limbs <<low, middle, high>> of five decimal
\* digits; the high limb takes what is left.
Base == 100000
Big(n) == <<n % Base, n \div Base, 0>>
BigAdd(a, b) ==
  LET s0 == a[1] + b[1]
      s1 == a[2] + b[2] + s0 \div Base
  IN <<s0 % Base, s1 % Base, a[3] + b[3] + s1 \div Base>>
\* a * k for a factor k < 20000.
BigMul(a, k) ==
  LET p0 == a[1] * k
      p1 == a[2] * k + p0 \div Base
  IN <<p0 % Base, p1 % Base, a[3] * k + p1 \div Base>>
BigLess(a, b) ==
  \/ a[3] < b[3]
  \/ a[3] = b[3] /\ a[2] < b[2]
  \/ a[3] = b[3] /\ a[2] = b[2] /\ a[1] < b[1]

(* ------------------------ prior hyperparameters ------------------------ *)
mu_prior_params == [mu |-> 0, sigma |-> 4 * One]
sigma_prior_param_a == 50
sigma_prior_param_b == 200

(* ---------------------- the random deviate source ---------------------- *)
\* A deterministic generator: the state after k draws is a function of the
\* seed and k.
RngStep(r) == (r * 4005 + 12345) % 65536
RngSeed(seed) == RngStep((seed * 7919) % 65536)
RngBits(r) == r \div 64

ZTable == <<-15, -10, -5, 0, 0, 5, 10, 15>>
GammaTable == <<16, 45, 100, 400>>
BetaTable == <<2, 15, 50, 85, 98>>

\* Each deviate function is given the generator state after its draw.
GSLfun_ran_gaussian(params, r) ==
  params.mu + (params.sigma * ZTable[(RngBits(r) % Len(ZTable)) + 1]) \div 10
GSLfun_ran_gamma(a, b, r) ==
  (b * GammaTable[(RngBits(r) % Len(GammaTable)) + 1]) \div (2 * One)
GSLfun_ran_beta_Jeffreys(r) == BetaTable[(RngBits(r) % Len(BetaTable)) + 1]
gsl_ran_flat01(r) == RngBits(r) % One

(* ------------------------ quantile functions --------------------------- *)
\* Inverse CDFs at the probability num/den; each is increasing in num/den.
gsl_cdf_gaussian_Pinv(num, den, sigma) == (sigma * (2 * num - den)) \div den
gsl_cdf_gamma_Pinv(num, den, a, b) ==
  (b * num * num) \div (2 * den * (den - num))
gsl_cdf_beta_Pinv(num, den) == (2 * One * num * num) \div (den * den)

(* ------------------------- unsigned integers --------------------------- *)
\* A 32-bit unsigned value is kept as two 16-bit halves.
Half == 65536
ToUint(i) == [hi |-> (i \div Half) % Half, lo |-> i % Half]
UintIsZero(u) == u.hi = 0 /\ u.lo = 0
UintLess(u, v) == u.hi < v.hi \/ (u.hi = v.hi /\ u.lo < v.lo)
UintSub(u, v) ==
  LET borrow == IF u.lo < v.lo THEN 1 ELSE 0
  IN [hi |-> (u.hi - v.hi - borrow) % Half, lo |-> (u.lo - v.lo) % Half]

(* ----------------------------- command line ---------------------------- *)
Digits == <<"0", "1", "2", "3">>
Chars == {"0", "1", "2", "3", "-", "+", " ", "x"}
IsDigit(c) == \E k \in 1..Len(Digits) : Digits[k] = c
DigitVal(c) == (CHOOSE k \in 1..Len(Digits) : Digits[k] = c) - 1

RECURSIVE SkipSpace(_)
SkipSpace(s) == IF s # <<>> /\ Head(s) = " " THEN SkipSpace(Tail(s)) ELSE s

RECURSIVE DigitsValue(_, _)
DigitsValue(s, acc) ==
  IF s # <<>> /\ IsDigit(Head(s))
  THEN DigitsValue(Tail(s), 10 * acc + DigitVal(Head(s)))
  ELSE acc

\* atoi: optional white space, an optional sign, then the leading digits;
\* conversion stops at the first other character.
atoi(s) ==
  LET t == SkipSpace(s)
  IN IF t # <<>> /\ Head(t) = "-" THEN 0 - DigitsValue(Tail(t), 0)
     ELSE IF t # <<>> /\ Head(t) = "+" THEN DigitsValue(Tail(t), 0)
     ELSE DigitsValue(t, 0)

ArgStrings == UNION {[1..n -> Chars] : n \in 0..MaxArgLen}

(* ------------------------------ sampling ------------------------------- *)
\* r is the generator state before the call; the result carries the state
\* after it.
prior_Gauss_params_sample(r) ==
  LET r1 == RngStep(r)
      r2 == RngStep(r1)
  IN [mu |-> GSLfun_ran_gaussian(mu_prior_params, r1),
      sigma |-> sigma_of_precision(
                  GSLfun_ran_gamma(sigma_prior_param_a, sigma_prior_param_b, r2)),
      rng |-> r2]

Params(p) == [mu |-> p.mu, sigma |-> p.sigma]

prior_Gauss_mixture_params_sample(r) ==
  The({ The({ [mixCof |-> GSLfun_ran_beta_Jeffreys(RngStep(r)),
               Gauss1 |-> Params(g1), Gauss2 |-> Params(g2), rng |-> g2.rng]
              : g2 \in {prior_Gauss_params_sample(g1.rng)} })
        : g1 \in {prior_Gauss_params_sample(RngStep(r))} })

\* buf = [data, stamp, rng]: the buffer, the trial that wrote each entry,
\* and the generator state.
RECURSIVE Generate1Loop(_, _, _, _, _)
Generate1Loop(i, n, params, tid, buf) ==
  IF i < n
  THEN LET r1 == RngStep(buf.rng)
       IN Generate1Loop(i + 1, n, params, tid,
            [data |-> [buf.data EXCEPT ![i + 1] = GSLfun_ran_gaussian(params, r1)],
             stamp |-> [buf.stamp EXCEPT ![i + 1] = tid],
             rng |-> r1])
  ELSE buf

data_generate_1componentShort(params, tid, buf) ==
  Generate1Loop(0, DATA_N - 1, params, tid, buf)

data_generate_1component(params, tid, buf) ==
  Generate1Loop(0, DATA_N, params, tid, buf)

RECURSIVE Generate2Loop(_, _, _, _, _)
Generate2Loop(i, n, params, tid, buf) ==
  IF i < n
  THEN LET r1 == RngStep(buf.rng)
           r2 == RngStep(r1)
           comp == IF gsl_ran_flat01(r1) < params.mixCof
                   THEN params.Gauss1 ELSE params.Gauss2
       IN Generate2Loop(i + 1, n, params, tid,
            [data |-> [buf.data EXCEPT ![i + 1] = GSLfun_ran_gaussian(comp, r2)],
             stamp |-> [buf.stamp EXCEPT ![i + 1] = tid],
             rng |-> r2])
  ELSE buf

data_generate_2component(params, tid, buf) ==
  Generate2Loop(0, DATA_N, params, tid, buf)

(* --------------------------- likelihoods ------------------------------- *)
\* curProb after the loop over d = 0 .. dataN-1, started from 1.0; each
\* factor in units of 1/One^2.
RECURSIVE Likelihood1(_, _, _)
Likelihood1(d, dat, params) ==
  IF d = 0 THEN Big(1)
  ELSE The({ BigMul(curProb, One * newProb)
             : curProb \in {Likelihood1(d - 1, dat, params)},
               newProb \in {GSLfun_ran_gaussian_pdf(dat[d], params)} })

\* mixCof * pdf1 + (1 - mixCof) * pdf2, unrounded.
MixturePdf(x, mixCof, params1, params2) ==
  mixCof * GSLfun_ran_gaussian_pdf(x, params1)
    + (One - mixCof) * GSLfun_ran_gaussian_pdf(x, params2)

RECURSIVE Likelihood2(_, _, _, _, _)
Likelihood2(d, dat, mixCof, params1, params2) ==
  IF d = 0 THEN Big(1)
  ELSE The({ BigMul(curProb, newProb)
             : curProb \in {Likelihood2(d - 1, dat, mixCof, params1, params2)},
               newProb \in {MixturePdf(dat[d], mixCof, params1, params2)} })

(* ----------------------------- evidence -------------------------------- *)
\* The double  num / den  as an exact quotient.
Quot(num, den) == [num |-> num, den |-> den]
Greater(p, q) == BigLess(BigMul(q.num, p.den), BigMul(p.num, q.den))

(* --------------------------- grid building ---------------------------- *)
\* The probability x of node i (0-based) of each grid, as num/den.
GaussNode(i) == [num |-> i + 1, den |-> 1 + CDF_GAUSS_N]
GammaNodeTruncated(i) == [num |-> 0, den |-> CDF_GAMMA_N]
GammaNode(i) == [num |-> i, den |-> CDF_GAMMA_N]
JBetaNode(i) == [num |-> i, den |-> 2 * CDF_JBETA_N]

Precompute_Gauss ==
  [k \in 1..CDF_GAUSS_N |->
     gsl_cdf_gaussian_Pinv(GaussNode(k - 1).num, GaussNode(k - 1).den,
                           mu_prior_params.sigma)]
Precompute_gamma ==
  [k \in 1..CDF_GAMMA_N |->
     gsl_cdf_gamma_Pinv(GammaNode(k - 1).num, GammaNode(k - 1).den,
                        sigma_prior_param_a, sigma_prior_param_b)]
Precompute_JBeta ==
  [k \in 1..CDF_JBETA_N |->
     gsl_cdf_beta_Pinv(JBetaNode(k - 1).num, JBetaNode(k - 1).den)]

(* ------------------------------ loop nests ----------------------------- *)
\* The index vector of a nest of for-loops after one pass of the innermost
\* body: the innermost index is incremented; an index that reaches its limit
\* restarts at 0 and the next outer one is incremented.  The nest is over
\* when the outermost index reaches its limit.
RECURSIVE LoopNextSkipFirst(_, _)
LoopNextSkipFirst(idx, lim) ==
  LET n == Len(idx)
  IN IF n = 1 THEN <<idx[1] + 1>>
     ELSE IF idx[n] + 1 < lim[n] THEN [idx EXCEPT ![n] = @ + 1]
     ELSE LoopNextSkipFirst(SubSeq(idx, 1, n - 1), SubSeq(lim, 1, n - 1))
            \o <<IF lim[n] > 1 THEN 1 ELSE 0>>

RECURSIVE LoopNext(_, _)
LoopNext(idx, lim) ==
  LET n == Len(idx)
  IN IF n = 1 THEN <<idx[1] + 1>>
     ELSE IF idx[n] + 1 < lim[n] THEN [idx EXCEPT ![n] = @ + 1]
     ELSE LoopNext(SubSeq(idx, 1, n - 1), SubSeq(lim, 1, n - 1)) \o <<0>>

Limits1 == <<CDF_GAUSS_N, CDF_GAMMA_N>>
Limits2 == <<CDF_GAUSS_N, CDF_GAUSS_N, CDF_GAMMA_N, CDF_GAMMA_N, CDF_JBETA_N>>
LimitsSampling == <<sampleRepeatNum>>

VARIABLES
  pc,            \* where main (or the integrator it called) stands
  phase,         \* 1: the loop over one-component data, 2: two-component
  datasets_n, iter, exit_status, out,
  seed, rng,     \* GSL_RNG_SEED as read by GSLfun_setup; the generator state
  cdfInv_Gauss, cdfInv_gamma, cdfInv_JBeta,
  data,
  idx, prob_total,                 \* the running integrator's locals
  ra,                              \* where the running integrator returns to
  prob_data1_bySampling, prob_data2_bySampling,
  prob_data1_bySumming, prob_data2_bySumming,
  model1_sampling_favors1, model1_summing__favors1,
  model2_sampling_favors1, model2_summing__favors1,
  \* history variables, read by no action's guard or program assignment
  cmd_kind,      \* the kind of command line main was given
  data_stamp,    \* the trial whose data_generate call wrote each entry
  trial_id,      \* trials started so far
  calls, rets,   \* integrator invocations and returns in the current trial
  trials_done,   \* completed trials per phase
  strict,        \* trials whose generating model had strictly higher evidence
  ncalls,        \* integrator invocations so far
  visited,       \* the index vectors of the passes of the latest invocation
  memo,          \* <<integrator, dataset, value, ncalls>> of every return
  run, first     \* second execution of the program, and the first one's record

grids == <<cdfInv_Gauss, cdfInv_gamma, cdfInv_JBeta>>
results == <<prob_data1_bySampling, prob_data2_bySampling,
             prob_data1_bySumming, prob_data2_bySumming>>
favors == <<model1_sampling_favors1, model1_summing__favors1,
            model2_sampling_favors1, model2_summing__favors1>>
locals == <<idx, prob_total, ra>>
history == <<cmd_kind, data_stamp, trial_id, calls, rets, trials_done,
             strict, ncalls, visited, memo>>
vars == <<pc, phase, datasets_n, iter, exit_status, out, seed, rng, grids,
          data, locals, results, favors, history, run, first>>

Estimators == {"samp1", "samp2", "sum1", "sum2"}
Unset == Quot(Big(0), 0)
DefaultTrials == 10

\* The process image at the start of main: the globals as initialised, the
\* locals of main as declared, the history empty.
Start ==
  [pc |-> "main",
   phase |-> 0,
   datasets_n |-> ToUint(DefaultTrials),
   iter |-> 0,
   exit_status |-> -1,
   out |-> <<>>,
   seed |-> -1,
   rng |-> 0,
   cdfInv_Gauss |-> [k \in 1..CDF_GAUSS_N |-> 0],
   cdfInv_gamma |-> [k \in 1..CDF_GAMMA_N |-> 0],
   cdfInv_JBeta |-> [k \in 1..CDF_JBETA_N |-> 0],
   data |-> [k \in 1..DATA_N |-> 0],
   idx |-> <<0>>,
   prob_total |-> Big(0),
   ra |-> "none",
   prob_data1_bySampling |-> Unset,
   prob_data2_bySampling |-> Unset,
   prob_data1_bySumming |-> Unset,
   prob_data2_bySumming |-> Unset,
   model1_sampling_favors1 |-> 0,
   model1_summing__favors1 |-> 0,
   model2_sampling_favors1 |-> 0,
   model2_summing__favors1 |-> 0,
   cmd_kind |-> "unparsed",
   data_stamp |-> [k \in 1..DATA_N |-> 0],
   trial_id |-> 0,
   calls |-> [e \in Estimators |-> 0],
   rets |-> [e \in Estimators |-> 0],
   trials_done |-> <<0, 0>>,
   strict |-> [e \in {"sampling1", "summing1", "sampling2", "summing2"} |-> 0],
   ncalls |-> 0,
   visited |-> <<>>,
   memo |-> {}]

ProcessStart ==
  /\ pc = Start.pc
  /\ phase = Start.phase
  /\ datasets_n = Start.datasets_n
  /\ iter = Start.iter
  /\ exit_status = Start.exit_status
  /\ out = Start.out
  /\ seed = Start.seed
  /\ rng = Start.rng
  /\ cdfInv_Gauss = Start.cdfInv_Gauss
  /\ cdfInv_gamma = Start.cdfInv_gamma
  /\ cdfInv_JBeta = Start.cdfInv_JBeta
  /\ data = Start.data
  /\ idx = Start.idx
  /\ prob_total = Start.prob_total
  /\ ra = Start.ra
  /\ prob_data1_bySampling = Start.prob_data1_bySampling
  /\ prob_data2_bySampling = Start.prob_data2_bySampling
  /\ prob_data1_bySumming = Start.prob_data1_bySumming
  /\ prob_data2_bySumming = Start.prob_data2_bySumming
  /\ model1_sampling_favors1 = Start.model1_sampling_favors1
  /\ model1_summing__favors1 = Start.model1_summing__favors1
  /\ model2_sampling_favors1 = Start.model2_sampling_favors1
  /\ model2_summing__favors1 = Start.model2_summing__favors1
  /\ cmd_kind = Start.cmd_kind
  /\ data_stamp = Start.data_stamp
  /\ trial_id = Start.trial_id
  /\ calls = Start.calls
  /\ rets = Start.rets
  /\ trials_done = Start.trials_done
  /\ strict = Start.strict
  /\ ncalls = Start.ncalls
  /\ visited = Start.visited
  /\ memo = Start.memo

Init ==
  /\ ProcessStart
  /\ run = 1
  /\ first = [seed |-> -1, datasets_n |-> ToUint(0), out |-> <<>>]

Event(ev, args) == [ev |-> ev, args |-> args]
Q(p) == <<p.num, p.den>>
U(u) == <<u.hi, u.lo>>

(* -------------------------------- main --------------------------------- *)
\* A command line that asks for a positive number of trials, or for none.
RECURSIVE AllDigits(_)
AllDigits(s) == s = <<>> \/ (IsDigit(Head(s)) /\ AllDigits(Tail(s)))

IsPositiveInteger(s) ==
  LET t == SkipSpace(s)
      u == IF t # <<>> /\ Head(t) = "+" THEN Tail(t) ELSE t
  IN u # <<>> /\ AllDigits(u) /\ DigitsValue(u, 0) > 0

ValidCommandLine(argc, a) == argc = 1 \/ (argc = 2 /\ IsPositiveInteger(a))

\* What kind of command line it was, for the record.
CommandLineKind(argc, a) ==
  IF ValidCommandLine(argc, a) THEN "valid"
  ELSE IF argc > 2 THEN "extra arguments"
  ELSE IF SkipSpace(a) # <<>> /\ Head(SkipSpace(a)) = "-" THEN "minus sign"
  ELSE IF atoi(a) > 0 THEN "trailing characters"
  ELSE "not a positive number"

Accept(n) ==
  /\ datasets_n' = n
  /\ pc' = "setup"
  /\ UNCHANGED <<out, exit_status>>

Usage(n) ==
  /\ datasets_n' = n
  /\ out' = Append(out, Event("usage", <<>>))
  /\ exit_status' = 64
  /\ pc' = "exit64"

\* main, the switch on argc.  argv[1] is read only when argc = 2.
ParseArgs ==
  /\ pc = "main"
  /\ \E argc \in 1..MaxArgc, a \in ArgStrings :
       /\ argc = 1 => a = <<>>
       /\ cmd_kind' = CommandLineKind(argc, a)
       /\ IF argc = 1 THEN Accept(datasets_n)
          ELSE IF argc = 2
               THEN IF UintIsZero(ToUint(atoi(a)))
                    THEN Usage(ToUint(atoi(a)))
                    ELSE Accept(ToUint(atoi(a)))
               ELSE Usage(datasets_n)
  /\ UNCHANGED <<phase, iter, seed, rng, grids, data, locals, results, favors,
                 data_stamp, trial_id, calls, rets, trials_done, strict, ncalls,
                 visited, memo, run, first>>

\* The trial counts whose run is followed to its end.
RunsToEnd(n) == n.hi = 0 /\ (n.lo <= MaxTrials \/ n.lo = DefaultTrials)

\* A generator whose stream depends on the execution as well as on the seed.
GSLfun_setupFromClock ==
  /\ pc = "setup"
  /\ RunsToEnd(datasets_n)
  /\ \E s \in 0..MaxSeed : seed' = s /\ rng' = RngSeed(s + run)
  /\ pc' = "precompute"
  /\ UNCHANGED <<phase, datasets_n, iter, exit_status, out, grids, data,
                 locals, results, favors, history, run, first>>

\* GSLfun_setup(): the generator's state is a function of the seed alone.
GSLfun_setup ==
  /\ pc = "setup"
  /\ RunsToEnd(datasets_n)
  /\ \E s \in 0..MaxSeed : seed' = s /\ rng' = RngSeed(s)
  /\ pc' = "precompute"
  /\ UNCHANGED <<phase, datasets_n, iter, exit_status, out, grids, data,
                 locals, results, favors, history, run, first>>

\* cdfInv_precompute, then main up to the head of the first loop.
cdfInv_precompute ==
  /\ pc = "precompute"
  /\ cdfInv_Gauss' = Precompute_Gauss
  /\ cdfInv_gamma' = Precompute_gamma
  /\ cdfInv_JBeta' = Precompute_JBeta
  /\ model1_sampling_favors1' = 0
  /\ model1_summing__favors1' = 0
  /\ model2_sampling_favors1' = 0
  /\ model2_summing__favors1' = 0
  /\ out' = out \o <<Event("starting", U(datasets_n)), Event("one component", <<>>)>>
  /\ iter' = 0
  /\ phase' = 1
  /\ pc' = "loop"
  /\ UNCHANGED <<datasets_n, exit_status, seed, rng, data, locals, results,
                 history, run, first>>

Buffer(r) == [data |-> data, stamp |-> data_stamp, rng |-> r]

\* One pass of the first loop's head: the parameters, the data set.
Trial1Begin ==
  /\ pc = "loop" /\ phase = 1
  /\ UintLess(ToUint(iter), datasets_n)
  /\ \E model_params \in {prior_Gauss_params_sample(rng)} :
     \E buf \in {data_generate_1component(Params(model_params), trial_id + 1,
                                          Buffer(model_params.rng))} :
        /\ out' = Append(out, Event("generating 1",
                                    <<model_params.mu, model_params.sigma>>))
        /\ data' = buf.data
        /\ data_stamp' = buf.stamp
        /\ rng' = buf.rng
  /\ trial_id' = trial_id + 1
  /\ calls' = [e \in Estimators |-> 0]
  /\ rets' = [e \in Estimators |-> 0]
  /\ pc' = "call_samp1"
  /\ UNCHANGED <<phase, datasets_n, iter, exit_status, seed, grids, locals,
                 results, favors, cmd_kind, trials_done, strict, ncalls,
                 visited, memo, run, first>>

Loop1Exit ==
  /\ pc = "loop" /\ phase = 1
  /\ ~UintLess(ToUint(iter), datasets_n)
  /\ out' = Append(out, Event("two components", <<>>))
  /\ iter' = 0
  /\ phase' = 2
  /\ UNCHANGED <<pc, datasets_n, exit_status, seed, rng, grids, data, locals,
                 results, favors, history, run, first>>

Trial2Begin ==
  /\ pc = "loop" /\ phase = 2
  /\ UintLess(ToUint(iter), datasets_n)
  /\ \E model_params \in {prior_Gauss_mixture_params_sample(rng)} :
     \E buf \in {data_generate_2component(model_params, trial_id + 1,
                                          Buffer(model_params.rng))} :
        /\ out' = Append(out, Event("generating 2",
                           <<model_params.mixCof,
                             model_params.Gauss1.mu, model_params.Gauss1.sigma,
                             model_params.Gauss2.mu, model_params.Gauss2.sigma>>))
        /\ data' = buf.data
        /\ data_stamp' = buf.stamp
        /\ rng' = buf.rng
  /\ trial_id' = trial_id + 1
  /\ calls' = [e \in Estimators |-> 0]
  /\ rets' = [e \in Estimators |-> 0]
  /\ pc' = "call_samp1"
  /\ UNCHANGED <<phase, datasets_n, iter, exit_status, seed, grids, locals,
                 results, favors, cmd_kind, trials_done, strict, ncalls,
                 visited, memo, run, first>>

\* The end of the second loop and the four lines of the summary.
Summary ==
  /\ pc = "loop" /\ phase = 2
  /\ ~UintLess(ToUint(iter), datasets_n)
  /\ out' = out \o
       <<Event("sampling 1", U(ToUint(model1_sampling_favors1)) \o U(datasets_n)),
         Event("sampling 2",
               U(UintSub(datasets_n, ToUint(model2_sampling_favors1)))
                 \o U(datasets_n)),
         Event("summing 1", U(ToUint(model1_summing__favors1)) \o U(datasets_n)),
         Event("summing 2",
               U(UintSub(datasets_n, ToUint(model2_summing__favors1)))
                 \o U(datasets_n))>>
  /\ exit_status' = 0
  /\ pc' = "done"
  /\ UNCHANGED <<phase, datasets_n, iter, seed, rng, grids, data, locals,
                 results, favors, history, run, first>>

\* The printf of the four integrals and the two comparisons.
Integrals ==
  Event("integrals", Q(prob_data1_bySampling) \o Q(prob_data2_bySampling)
                       \o Q(prob_data1_bySumming) \o Q(prob_data2_bySumming))

Bump(c, b) == IF b THEN c + 1 ELSE c

Compare1 ==
  /\ pc = "compare" /\ phase = 1
  /\ out' = Append(out, Integrals)
  /\ model1_sampling_favors1' =
       Bump(model1_sampling_favors1,
            Greater(prob_data1_bySampling, prob_data2_bySampling))
  /\ model1_summing__favors1' =
       Bump(model1_summing__favors1,
            Greater(prob_data1_bySumming, prob_data2_bySumming))
  /\ strict' = [strict EXCEPT
       !["sampling1"] = Bump(@, Greater(prob_data1_bySampling, prob_data2_bySampling)),
       !["summing1"] = Bump(@, Greater(prob_data1_bySumming, prob_data2_bySumming))]
  /\ trials_done' = [trials_done EXCEPT ![1] = @ + 1]
  /\ iter' = iter + 1
  /\ pc' = "loop"
  /\ UNCHANGED <<phase, datasets_n, exit_status, seed, rng, grids, data,
                 locals, results, model2_sampling_favors1,
                 model2_summing__favors1, cmd_kind, data_stamp, trial_id,
                 calls, rets, ncalls, visited, memo, run, first>>

Compare2 ==
  /\ pc = "compare" /\ phase = 2
  /\ out' = Append(out, Integrals)
  /\ model2_sampling_favors1' =
       Bump(model2_sampling_favors1,
            Greater(prob_data1_bySampling, prob_data2_bySampling))
  /\ model2_summing__favors1' =
       Bump(model2_summing__favors1,
            Greater(prob_data1_bySumming, prob_data2_bySumming))
  /\ strict' = [strict EXCEPT
       !["sampling2"] = Bump(@, Greater(prob_data2_bySampling, prob_data1_bySampling)),
       !["summing2"] = Bump(@, Greater(prob_data2_bySumming, prob_data1_bySumming))]
  /\ trials_done' = [trials_done EXCEPT ![2] = @ + 1]
  /\ iter' = iter + 1
  /\ pc' = "loop"
  /\ UNCHANGED <<phase, datasets_n, exit_status, seed, rng, grids, data,
                 locals, results, model1_sampling_favors1,
                 model1_summing__favors1, cmd_kind, data_stamp, trial_id,
                 calls, rets, ncalls, visited, memo, run, first>>

(* ----------------------------- integrators ---------------------------- *)
\* What an integrator leaves alone whatever it does.
IntegratorFrame ==
  UNCHANGED <<phase, datasets_n, iter, exit_status, out, seed, grids, data,
              favors, cmd_kind, data_stamp, trial_id, trials_done, strict,
              run, first>>

\* prob_total's initial value on entry to an integrator.
ProbTotalKept == prob_total
ProbTotalInit == Big(0)

Enter(est, loopvars, return_to) ==
  /\ prob_total' = ProbTotalInit
  /\ idx' = loopvars
  /\ ra' = return_to
  /\ calls' = [calls EXCEPT ![est] = @ + 1]
  /\ ncalls' = ncalls + 1
  /\ visited' = <<>>
  /\ pc' = est
  /\ UNCHANGED <<rng, results, rets, memo>>
  /\ IntegratorFrame

Leave(est, value) ==
  /\ rets' = [rets EXCEPT ![est] = @ + 1]
  /\ memo' = memo \cup {<<est, data, value, ncalls>>}
  /\ pc' = ra
  /\ UNCHANGED <<rng, locals, calls, ncalls, visited>>
  /\ IntegratorFrame

\* One pass of the loop over iter: a draw from the prior, the product of the
\* densities of the data, the accumulation.
Sampling1Pass(r) ==
  The({ [curProb |-> Likelihood1(DATA_N, data, Params(params)),
         rng |-> params.rng]
        : params \in {prior_Gauss_params_sample(r)} })

Sampling2Pass(r) ==
  The({ [curProb |-> Likelihood2(DATA_N, data, params.mixCof,
                                 params.Gauss1, params.Gauss2),
         rng |-> params.rng]
        : params \in {prior_Gauss_mixture_params_sample(r)} })

\* The body of the innermost grid loop at the indices ix (0-based).
Cell1Prob(ix) ==
  The({ Likelihood1(DATA_N, data, [mu |-> cdfInv_Gauss[ix[1] + 1],
                                   sigma |-> sigma])
        : sigma \in {sigma_of_precision(cdfInv_gamma[ix[2] + 1])} })

Cell2ProbOneSided(ix) ==
  The({ Likelihood2(DATA_N, data, cdfInv_JBeta[ix[5] + 1],
                    cur_params1, cur_params1)
        : cur_params1 \in
            { [mu |-> cdfInv_Gauss[ix[1] + 1],
               sigma |-> sigma_of_precision(cdfInv_gamma[ix[3] + 1])] } })

Cell2Prob(ix) ==
  The({ Likelihood2(DATA_N, data, cdfInv_JBeta[ix[5] + 1],
                    cur_params1, cur_params2)
        : cur_params1 \in
            { [mu |-> cdfInv_Gauss[ix[1] + 1],
               sigma |-> sigma_of_precision(cdfInv_gamma[ix[3] + 1])] },
          cur_params2 \in
            { [mu |-> cdfInv_Gauss[ix[2] + 1],
               sigma |-> sigma_of_precision(cdfInv_gamma[ix[4] + 1])] } })

\* The divisors of the two Riemann sums.
Cells1 == CDF_GAUSS_N * CDF_GAMMA_N
Cells2 == CDF_GAUSS_N * CDF_GAUSS_N * CDF_GAMMA_N * CDF_GAMMA_N * CDF_JBETA_N

data_prob_1component_bySampling_Call ==
  /\ pc = "call_samp1"
  /\ Enter("samp1", <<0>>, "call_samp2")

data_prob_1component_bySampling_Pass ==
  /\ pc = "samp1"
  /\ idx[1] < sampleRepeatNum
  /\ \E pass \in {Sampling1Pass(rng)} :
        /\ prob_total' = BigAdd(prob_total, pass.curProb)
        /\ rng' = pass.rng
  /\ idx' = LoopNext(idx, LimitsSampling)
  /\ visited' = Append(visited, idx)
  /\ UNCHANGED <<pc, ra, results, calls, rets, ncalls, memo>>
  /\ IntegratorFrame

data_prob_1component_bySampling_Return ==
  /\ pc = "samp1"
  /\ ~(idx[1] < sampleRepeatNum)
  /\ prob_data1_bySampling' = Quot(prob_total, sampleRepeatNum)
  /\ Leave("samp1", Quot(prob_total, sampleRepeatNum))
  /\ UNCHANGED <<prob_data2_bySampling, prob_data1_bySumming,
                 prob_data2_bySumming>>

data_prob_2component_bySampling_Call ==
  /\ pc = "call_samp2"
  /\ Enter("samp2", <<0>>, "call_sum1")

data_prob_2component_bySampling_Pass ==
  /\ pc = "samp2"
  /\ idx[1] < sampleRepeatNum
  /\ \E pass \in {Sampling2Pass(rng)} :
        /\ prob_total' = BigAdd(prob_total, pass.curProb)
        /\ rng' = pass.rng
  /\ idx' = LoopNext(idx, LimitsSampling)
  /\ visited' = Append(visited, idx)
  /\ UNCHANGED <<pc, ra, results, calls, rets, ncalls, memo>>
  /\ IntegratorFrame

data_prob_2component_bySampling_Return ==
  /\ pc = "samp2"
  /\ ~(idx[1] < sampleRepeatNum)
  /\ prob_data2_bySampling' = Quot(prob_total, sampleRepeatNum)
  /\ Leave("samp2", Quot(prob_total, sampleRepeatNum))
  /\ UNCHANGED <<prob_data1_bySampling, prob_data1_bySumming,
                 prob_data2_bySumming>>

\* Where main goes on after  prob_data1_bySumming = ...
Sum1ReturnToCompare == "compare"
Sum1ReturnTo == "call_sum2"

data_prob_1component_bySumming_Call ==
  /\ pc = "call_sum1"
  /\ Enter("sum1", <<0, 0>>, Sum1ReturnTo)

data_prob_1component_bySumming_Pass ==
  /\ pc = "sum1"
  /\ idx[1] < CDF_GAUSS_N
  /\ \E curProb \in {Cell1Prob(idx)} :
       prob_total' = BigAdd(prob_total, curProb)
  /\ idx' = LoopNext(idx, Limits1)
  /\ visited' = Append(visited, idx)
  /\ UNCHANGED <<pc, ra, rng, results, calls, rets, ncalls, memo>>
  /\ IntegratorFrame

data_prob_1component_bySumming_Return ==
  /\ pc = "sum1"
  /\ ~(idx[1] < CDF_GAUSS_N)
  /\ prob_data1_bySumming' = Quot(prob_total, Cells1)
  /\ Leave("sum1", Quot(prob_total, Cells1))
  /\ UNCHANGED <<prob_data1_bySampling, prob_data2_bySampling,
                 prob_data2_bySumming>>

data_prob_2component_bySumming_Call ==
  /\ pc = "call_sum2"
  /\ Enter("sum2", <<0, 0, 0, 0, 0>>, "compare")

data_prob_2component_bySumming_Pass ==
  /\ pc = "sum2"
  /\ idx[1] < CDF_GAUSS_N
  /\ \E curProb \in {Cell2Prob(idx)} :
       prob_total' = BigAdd(prob_total, curProb)
  /\ idx' = LoopNext(idx, Limits2)
  /\ visited' = Append(visited, idx)
  /\ UNCHANGED <<pc, ra, rng, results, calls, rets, ncalls, memo>>
  /\ IntegratorFrame

data_prob_2component_bySumming_Return ==
  /\ pc = "sum2"
  /\ ~(idx[1] < CDF_GAUSS_N)
  /\ prob_data2_bySumming' = Quot(prob_total, Cells2)
  /\ Leave("sum2", Quot(prob_total, Cells2))
  /\ UNCHANGED <<prob_data1_bySampling, prob_data2_bySampling,
                 prob_data1_bySumming>>

(* --------------------------- specifications ---------------------------- *)
Integrate ==
  \/ data_prob_1component_bySampling_Pass
  \/ data_prob_1component_bySampling_Return
  \/ data_prob_2component_bySampling_Pass
  \/ data_prob_2component_bySampling_Return
  \/ data_prob_1component_bySumming_Pass
  \/ data_prob_1component_bySumming_Return
  \/ data_prob_2component_bySumming_Pass
  \/ data_prob_2component_bySumming_Return

Next ==
  \/ ParseArgs
  \/ GSLfun_setup
  \/ cdfInv_precompute
  \/ Trial1Begin
  \/ Loop1Exit
  \/ Trial2Begin
  \/ Summary
  \/ Compare1
  \/ Compare2
  \/ data_prob_1component_bySampling_Call
  \/ data_prob_2component_bySampling_Call
  \/ data_prob_1component_bySumming_Call
  \/ data_prob_2component_bySumming_Call
  \/ Integrate

Spec == Init /\ [][Next]_vars

\* main is sequential and every loop is bounded: a step that can be taken is
\* taken.
FairSpec == Spec /\ WF_vars(Next)

(* The integrators as functions: on the first data set of a run without     *)
(* arguments, any integrator is called, up to MaxCalls times, in any order. *)
MaxCalls == 3

LoopVars(est) ==
  IF est = "sum1" THEN <<0, 0>>
  ELSE IF est = "sum2" THEN <<0, 0, 0, 0, 0>>
  ELSE <<0>>

\* A caller of the file's functions, after the first data set is generated:
\* up to MaxCalls calls, in any order.
CallerReady ==
  /\ pc \in {"call_samp1", "idle"}
  /\ trial_id = 1
  /\ datasets_n = ToUint(DefaultTrials)
  /\ cmd_kind = "valid"
  /\ ncalls < MaxCalls

AnyCall ==
  /\ CallerReady
  /\ \E est \in Estimators : Enter(est, LoopVars(est), "idle")

\* CMPdata, the ternary comparison given to qsort.
CMPdata(arg1, arg2) == IF arg1 < arg2 THEN -1 ELSE IF arg2 < arg1 THEN 1 ELSE 0

\* qsort with CMPdata: the entries in ascending order.
RECURSIVE qsort(_)
qsort(s) ==
  IF Len(s) = 0 THEN <<>>
  ELSE LET k == CHOOSE i \in 1..Len(s) :
                  \A j \in 1..Len(s) : CMPdata(s[i], s[j]) <= 0
       IN <<s[k]>> \o qsort(SubSeq(s, 1, k - 1) \o SubSeq(s, k + 1, Len(s)))

\* What printf("%+5.3f ", i, data[i]) shows for the sorted buffer d: the
\* one conversion is given the unsigned i, not a double, so each number
\* shown is data[i] where doubles are passed apart from integers, and
\* otherwise some other number.
Shown(d) == {d} \cup {[k \in 1..DATA_N |-> g] : g \in {0, Inf}}

\* data_print: sorts the data buffer in place, then prints it.  main never
\* calls it; a caller of the file's functions may.
data_print ==
  /\ CallerReady
  /\ data' = qsort(data)
  /\ \E shown \in Shown(qsort(data)) :
       out' = Append(out, Event("data_print", shown))
  /\ ncalls' = ncalls + 1
  /\ pc' = "idle"
  /\ UNCHANGED <<phase, datasets_n, iter, exit_status, seed, rng, grids,
                 locals, results, favors, cmd_kind, data_stamp, trial_id,
                 calls, rets, trials_done, strict, visited, memo, run, first>>

IntegratorNext ==
  \/ ParseArgs
  \/ GSLfun_setup
  \/ cdfInv_precompute
  \/ Trial1Begin
  \/ AnyCall
  \/ data_print
  \/ Integrate

IntegratorSpec == Init /\ [][IntegratorNext]_vars

(* Two executions of the program, one after the other, the second with the  *)
(* seed and the trial count of the first.                                    *)
Restart ==
  /\ pc = "done"
  /\ run = 1
  /\ run' = 2
  /\ first' = [seed |-> seed, datasets_n |-> datasets_n, out |-> out]
  /\ pc' = Start.pc
  /\ phase' = Start.phase
  /\ datasets_n' = Start.datasets_n
  /\ iter' = Start.iter
  /\ exit_status' = Start.exit_status
  /\ out' = Start.out
  /\ seed' = Start.seed
  /\ rng' = Start.rng
  /\ cdfInv_Gauss' = Start.cdfInv_Gauss
  /\ cdfInv_gamma' = Start.cdfInv_gamma
  /\ cdfInv_JBeta' = Start.cdfInv_JBeta
  /\ data' = Start.data
  /\ idx' = Start.idx
  /\ prob_total' = Start.prob_total
  /\ ra' = Start.ra
  /\ prob_data1_bySampling' = Start.prob_data1_bySampling
  /\ prob_data2_bySampling' = Start.prob_data2_bySampling
  /\ prob_data1_bySumming' = Start.prob_data1_bySumming
  /\ prob_data2_bySumming' = Start.prob_data2_bySumming
  /\ model1_sampling_favors1' = Start.model1_sampling_favors1
  /\ model1_summing__favors1' = Start.model1_summing__favors1
  /\ model2_sampling_favors1' = Start.model2_sampling_favors1
  /\ model2_summing__favors1' = Start.model2_summing__favors1
  /\ cmd_kind' = Start.cmd_kind
  /\ data_stamp' = Start.data_stamp
  /\ trial_id' = Start.trial_id
  /\ calls' = Start.calls
  /\ rets' = Start.rets
  /\ trials_done' = Start.trials_done
  /\ strict' = Start.strict
  /\ ncalls' = Start.ncalls
  /\ visited' = Start.visited
  /\ memo' = Start.memo

SameInputs ==
  run = 2 =>
    /\ pc # "exit64"
    /\ pc # "main" => datasets_n = first.datasets_n
    /\ seed \in {-1, first.seed}

TwoRunNext ==
  \/ Next /\ SameInputs'
  \/ Restart

TwoRunSpec == Init /\ [][TwoRunNext]_vars

(* ------------------------------- claims -------------------------------- *)
TrialPcs == {"loop", "call_samp1", "call_samp2", "call_sum1", "call_sum2",
             "samp1", "samp2", "sum1", "sum2", "compare", "idle", "done"}
IntegratorPcs == TrialPcs \ {"loop", "done"}
GridsBuilt == pc \in TrialPcs

\* The four counts of the summary, as printed.
Reported ==
  [sampling1 |-> out[Len(out) - 3].args, sampling2 |-> out[Len(out) - 2].args,
   summing1 |-> out[Len(out) - 1].args, summing2 |-> out[Len(out)].args]

\* C1: a trial is counted in a reported correct-selection total if and only
\* if the estimate of the model that generated its data is strictly the
\* higher one: each reported total is the number of such trials.
C1_StrictlyHigherCounted ==
  pc = "done" =>
    \A k \in DOMAIN strict :
      Reported[k] = U(ToUint(strict[k])) \o U(datasets_n)

\* C2: trials run only for a valid command line; any other ends in the usage
\* message and exit status 64 with the grids not built.
C2_InvalidCommandLineExits ==
  cmd_kind \notin {"unparsed", "valid"} =>
    /\ pc = "exit64"
    /\ exit_status = 64
    /\ out = <<Event("usage", <<>>)>>
    /\ grids = <<Start.cdfInv_Gauss, Start.cdfInv_gamma, Start.cdfInv_JBeta>>

MemoFunctional(ests) ==
  \A m1 \in memo : \A m2 \in memo :
    (m1[1] \in ests /\ m1[1] = m2[1] /\ m1[2] = m2[2]) => m1[3] = m2[3]

\* C3 as stated: any two invocations of the same integrator, one of the four,
\* on the same data set return the same value.
C3_AllIntegratorsPure == MemoFunctional(Estimators)

\* C3 as amended: any two invocations of the same summing integrator on the
\* same data set return the same value, whatever integrators ran in between.
C3_SummingIntegratorsPure == MemoFunctional({"sum1", "sum2"})

C3_Witness ==
  \E m1 \in memo : \E m2 \in memo :
    /\ m1[1] \in {"sum1", "sum2"} /\ m1[1] = m2[1]
    /\ m1[4] + 1 < m2[4]
    /\ m1[3].num # Big(0) /\ m1[3] = m2[3]
    /\ \E m \in memo : m[1] \in {"samp1", "samp2"} /\ m1[4] < m[4] /\ m[4] < m2[4]

IsPrefix(s, t) == Len(s) <= Len(t) /\ SubSeq(t, 1, Len(s)) = s

\* C4: a second execution with the seed and the trial count of the first
\* emits the output of the first, event for event.
C4_SameSeedSameOutput ==
  run = 2 =>
    /\ IsPrefix(out, first.out)
    /\ pc = "done" => out = first.out

C4_Witness ==
  /\ run = 2 /\ pc = "done"
  /\ out = first.out
  /\ \E k \in 1..Len(out) : out[k].ev = "integrals" /\ out[k].args[1] # Big(0)

\* C5: every precision the scale of a GaussianParams is derived from is
\* strictly positive; no node of the precision grid is 0.
C5_PrecisionPositive ==
  GridsBuilt =>
    \A k \in 1..CDF_GAMMA_N :
      cdfInv_gamma[k] > 0 /\ sigma_of_precision(cdfInv_gamma[k]) < Inf

Scale(k) == sigma_of_precision(cdfInv_gamma[k])
GridSizes ==
  /\ DOMAIN cdfInv_Gauss = 1..CDF_GAUSS_N
  /\ DOMAIN cdfInv_gamma = 1..CDF_GAMMA_N
  /\ DOMAIN cdfInv_JBeta = 1..CDF_JBETA_N
MeansIncreasing ==
  \A k \in 1..(CDF_GAUSS_N - 1) : cdfInv_Gauss[k] < cdfInv_Gauss[k + 1]
WeightsNonDecreasing ==
  \A k \in 1..(CDF_JBETA_N - 1) : cdfInv_JBeta[k] <= cdfInv_JBeta[k + 1]

\* C6 as stated: after cdfInv_precompute the grids have G, S and M entries,
\* the means and the scales are strictly increasing in index order and the
\* weights are non-decreasing.
C6_ScalesIncreasing ==
  GridsBuilt =>
    /\ GridSizes /\ MeansIncreasing /\ WeightsNonDecreasing
    /\ \A k \in 1..(CDF_GAMMA_N - 1) : Scale(k) < Scale(k + 1)

\* C6 as amended: the grids have G, S and M entries, the means are strictly
\* increasing, the stored precisions are strictly increasing, so that the
\* scales 1/sqrt(precision) are strictly decreasing, and the weights are
\* non-decreasing.
C6_ScalesDecreasing ==
  GridsBuilt =>
    /\ GridSizes /\ MeansIncreasing /\ WeightsNonDecreasing
    /\ \A k \in 1..(CDF_GAMMA_N - 1) :
         cdfInv_gamma[k] < cdfInv_gamma[k + 1] /\ Scale(k) > Scale(k + 1)

C6_Witness ==
  /\ pc = "loop" /\ trial_id = 0
  /\ cdfInv_gamma[1] < cdfInv_gamma[CDF_GAMMA_N]
  /\ Scale(1) > Scale(CDF_GAMMA_N)

Trials == datasets_n.lo

TrialShape ==
  /\ \A e \in Estimators : rets[e] <= calls[e] /\ calls[e] <= 1
  /\ (pc \in {"loop", "done", "compare"} /\ trial_id > 0) =>
       \A e \in Estimators : calls[e] = 1 /\ rets[e] = 1
  /\ pc \in IntegratorPcs =>
       /\ trial_id = trials_done[1] + trials_done[2] + 1
       /\ \A k \in 1..DATA_N : data_stamp[k] = trial_id
  /\ pc \in {"loop", "done"} => trial_id = trials_done[1] + trials_done[2]
  /\ trials_done[2] > 0 => trials_done[1] = Trials
  /\ pc = "done" => trials_done = <<Trials, Trials>>

\* C7: an accepted run reaches the summary, after exactly T one-component
\* trials followed by exactly T two-component trials; in a trial each of the
\* four integrators is called once and returns, after the trial's data set
\* is generated and before the next one is.
C7_RunsToSummary ==
  /\ [](GridsBuilt => TrialShape)
  /\ (pc = "precompute") ~> (pc = "done")

C7_Witness ==
  /\ pc = "done" /\ Trials >= 2
  /\ trials_done = <<Trials, Trials>>
  /\ trial_id = 2 * Trials

\* The sum of f over the cells of the grid with the sizes lim whose first
\* indices are those of prefix: f at the cell when prefix is a whole cell,
\* else the sum over the next index, RangeSum over its first n values.
RECURSIVE GridSum(_, _, _)
RECURSIVE RangeSum(_, _, _, _)
GridSum(prefix, lim, f) ==
  IF Len(prefix) = Len(lim) THEN f[prefix]
  ELSE RangeSum(prefix, lim, f, lim[Len(prefix) + 1])
RangeSum(prefix, lim, f, n) ==
  IF n = 0 THEN Big(0)
  ELSE The({ BigAdd(before, last)
             : before \in {RangeSum(prefix, lim, f, n - 1)},
               last \in {GridSum(Append(prefix, n - 1), lim, f)} })

AllCells1 == (0..(CDF_GAUSS_N - 1)) \X (0..(CDF_GAMMA_N - 1))
AllCells2 ==
  (0..(CDF_GAUSS_N - 1)) \X (0..(CDF_GAUSS_N - 1)) \X (0..(CDF_GAMMA_N - 1))
    \X (0..(CDF_GAMMA_N - 1)) \X (0..(CDF_JBETA_N - 1))

Enumerates(seq, S) ==
  /\ Len(seq) = Cardinality(S)
  /\ {seq[k] : k \in 1..Len(seq)} = S

\* C8: each quadrature integrator passes through every cell of its grid
\* cross-product exactly once, adds the cell's product of the densities of
\* the data, and divides by the number of cells.
C8_EveryCellOnce ==
  /\ (pc = ra /\ rets["sum1"] = 1 /\ rets["sum2"] = 0 /\ ra # "idle") =>
       /\ Enumerates(visited, AllCells1)
       /\ prob_data1_bySumming =
            Quot(GridSum(<<>>, Limits1, [ix \in AllCells1 |-> Cell1Prob(ix)]),
                 Cardinality(AllCells1))
  /\ pc = "compare" =>
       /\ Enumerates(visited, AllCells2)
       /\ prob_data2_bySumming =
            Quot(GridSum(<<>>, Limits2, [ix \in AllCells2 |-> Cell2Prob(ix)]),
                 Cardinality(AllCells2))

C8_Witness ==
  /\ pc = "compare"
  /\ Len(visited) = Cells2
  /\ prob_data2_bySumming.num # Big(0) /\ prob_data1_bySumming.num # Big(0)

\* C9: once built the grids are never changed; the data buffer is changed
\* only by the data_generate call at the head of a trial, which writes every
\* entry; so an integrator reads only values generated in its own trial.
C9_SharedStateFrame ==
  /\ [](pc \in IntegratorPcs => \A k \in 1..DATA_N : data_stamp[k] = trial_id)
  /\ [](GridsBuilt => grids = <<Precompute_Gauss, Precompute_gamma, Precompute_JBeta>>)
  /\ [][GridsBuilt => grids' = grids]_vars
  /\ [][(data' # data \/ data_stamp' # data_stamp) =>
          /\ pc = "loop" /\ pc' = "call_samp1"
          /\ \A k \in 1..DATA_N : data_stamp'[k] = trial_id']_vars

C9_Witness ==
  /\ pc = "compare" /\ trial_id >= 2
  /\ \A k \in 1..DATA_N : data_stamp[k] = trial_id
  /\ \E k \in 1..DATA_N : data[k] # 0

\* The cell's product with the weight mirrored, 1 - w for w.
MirrorCell2Prob(ix) ==
  LET cur_params1 == [mu |-> cdfInv_Gauss[ix[1] + 1],
                      sigma |-> sigma_of_precision(cdfInv_gamma[ix[3] + 1])]
      cur_params2 == [mu |-> cdfInv_Gauss[ix[2] + 1],
                      sigma |-> sigma_of_precision(cdfInv_gamma[ix[4] + 1])]
  IN Likelihood2(DATA_N, data, One - cdfInv_JBeta[ix[5] + 1],
                 cur_params1, cur_params2)

\* C10: the total of data_prob_2component_bySumming over the half-range
\* weights equals the total over the mirrored weights 1 - w.
C10_MirrorSymmetric ==
  pc = "compare" =>
    prob_data2_bySumming.num =
      GridSum(<<>>, Limits2, [ix \in AllCells2 |-> MirrorCell2Prob(ix)])

C10_Witness ==
  /\ pc = "compare"
  /\ prob_data2_bySumming.num # Big(0)
  /\ \E ix \in AllCells2 : Cell2Prob(ix) # MirrorCell2Prob(ix)

====
